---------------------------- MODULE Spec2Model ----------------------------
(***************************************************************************)
(* State-machine model of src/main.py (KITE AI auto runner + staking):     *)
(* the chat budget allocator and the account pipeline of process_account,  *)
(* the staking state machine of staking_cycle with its durable store, and  *)
(* the cycle scheduler of run_cycle / main.                                *)
(*                                                                         *)
(* Time is counted in whole hours.  A balance is counted in 1/BalScale     *)
(* KITE.  A remote call is one step: its outcome is "Ok", "Err" (any       *)
(* non-throttled exception) or "Thr" (TooManyRequestsError).               *)
(***************************************************************************)
EXTENDS Integers, Sequences, FiniteSets, TLC

(***************************** program constants ***************************)

AGENT_ORDER ==
    << "Professor", "Crypto Buddy", "Sherlock",
       "Zane", "Vyn", "Avril", "Noa", "Diane", "Sakura" >>

GLOBAL_DAILY_CHAT_CAP == 9

STAKE_MIN == 1

SUBNET_ORDER == << "Kite AI Agents", "Bitte", "Bitmind" >>

UNSTAKE_AFTER_HOURS == 24

CYCLE_WAIT_HOURS == 24

THROTTLE_TRIP == 5

(********************************* bounds **********************************)

\* largest chat_per_agent answer tried at the prompt (0 is tried as well)
MaxChatPerAgent == 4

\* a balance is a whole number of 1/BalScale KITE
BalScale == 2

\* largest whole-KITE balance the remote service reports
MaxKite == 3

\* the clock stops advancing after this many hours
MaxClock == 24

\* the process is started again at most this many times
MaxRestarts == 1

\* number of account addresses the store can hold
NumAddresses == 2

(********************************** sets ***********************************)

Agents == { AGENT_ORDER[n] : n \in 1..Len(AGENT_ORDER) }

Targets == { SUBNET_ORDER[n] : n \in 1..Len(SUBNET_ORDER) }

Addresses == 1..NumAddresses

Outcomes == { "Ok", "Err", "Thr" }

\* the balances the remote service reports: 0, just below 1, 1, just above 1, MaxKite
Balances == { 0, BalScale - 1, BalScale, BalScale + 1, MaxKite * BalScale }

\* hours a blocking remote call of the staking cycle may take (requests has no timeout)
CallHours == { 0, UNSTAKE_AFTER_HOURS }

\* hours the process may stay down before it is started again
DownHours == { 0, UNSTAKE_AFTER_HOURS }

\* the topic pools tried: the set of agents whose topic file is non-empty
PoolChoices == SUBSET Agents

VARIABLES
    pc,                    \* position of the single thread of control
    chat_per_agent,        \* main: answer to the prompt
    topics,                \* run_cycle: agents with a non-empty topic pool
    accounts,              \* run_cycle: account addresses in input order
    acct_pos,              \* run_cycle: index of the account being processed
    total_ok, total_fail, hit_global_limit_any,       \* run_cycle aggregates
    clock,                 \* now_jkt(), in hours
    call_hours,            \* environment: the hours a blocking remote call may take
    balances,              \* environment: the balances the remote service reports
    restarts,              \* history: times the process was started again
    disk,                  \* STATE_FILE
    st,                    \* staking_cycle: the loaded state dict ("accounts")
    kite_bal,              \* staking_cycle: tracked balance
    k,                     \* staking_cycle: index into SUBNET_ORDER
    staked_count, claimed_count, unstaked_count,
    agent_idx,             \* process_account: index into AGENT_ORDER
    i, attempts,           \* process_account: inner loop counter and its range
    total_success_today, consecutive_429, hit_global_limit,
    success, failed,
    sent,                  \* history: chat sends issued in this account-cycle
    trips,                 \* history: times hit_global_limit was assigned True
    chat_thr, chat_err,    \* history: a chat outcome was throttled / failed otherwise
    run_broken,            \* history: a non-throttled failure lies between the throttles counted
    fallback_first,        \* history: first-pass sends that carried the transaction-hash message
    entry,                 \* history: how derivation and authentication of the last pipeline ended
    quiz_runs,             \* history: times the quiz ran in this account-cycle
    quiz_steps,            \* history: outcomes of the calls of that quiz, until staking_cycle starts
    stk_calls,             \* history: staking remote calls issued in this account-cycle
    stk_throttled,         \* history: a call of this staking cycle was throttled
    fetched,               \* history: the balance the last get_balances left in kite_bal
    delegate_err,          \* history: a delegate call of this staking cycle failed, not throttled
    idle_at_refetch,       \* history: the targets idle when the balance was fetched again
    remote,                \* history: last successful delegate/undelegate per position
    exchange,              \* request_json: the completed HTTP exchange (status, body)
    outcome,               \* request_json: what it returned or raised
    send_in,               \* _send_one_chat: what the remote answers to its calls
    send_out               \* _send_one_chat: what it returned, and what its lookup did

\* one exchange of the remote client, as request_json sees it
netVars == << exchange, outcome, send_in, send_out >>

schedVars == << chat_per_agent, topics, accounts, call_hours, balances, restarts,
                acct_pos, total_ok, total_fail, hit_global_limit_any, netVars >>

chatVars == << agent_idx, i, attempts, total_success_today, consecutive_429,
               hit_global_limit, success, failed, sent, trips, chat_thr, chat_err, run_broken, fallback_first, entry, quiz_runs, quiz_steps >>

stakeVars == << st, kite_bal, k, staked_count, claimed_count, unstaked_count,
                stk_calls, stk_throttled, fetched, delegate_err, idle_at_refetch >>

vars == << pc, schedVars, chatVars, stakeVars, clock, disk, remote >>

Min(a, b) == IF a <= b THEN a ELSE b

(**************************** the rate classifier **************************)

\* the letters str.lower() changes, and what it changes them to
UpperCase ==
    << "A", "B", "C", "D", "E", "F", "G", "H", "I", "J", "K", "L", "M",
       "N", "O", "P", "Q", "R", "S", "T", "U", "V", "W", "X", "Y", "Z" >>

LowerCase ==
    << "a", "b", "c", "d", "e", "f", "g", "h", "i", "j", "k", "l", "m",
       "n", "o", "p", "q", "r", "s", "t", "u", "v", "w", "x", "y", "z" >>

Lower(c) ==
    IF \E j \in 1..Len(UpperCase) : UpperCase[j] = c
    THEN LowerCase[CHOOSE j \in 1..Len(UpperCase) : UpperCase[j] = c]
    ELSE c

\* mutant of ToLower: the message is matched as it came
ToLowerKeep(msg) == msg

\* str.lower() of a message, a sequence of characters
ToLower(msg) == [j \in 1..Len(msg) |-> Lower(msg[j])]

\* "pat in msg"
Contains(msg, pat) ==
    \E j \in 0..(Len(msg) - Len(pat)) : SubSeq(msg, j + 1, j + Len(pat)) = pat

\* the error messages a body may carry
MsgTooMany == << "T", "o", "o", " ", "M", "a", "n", "y" >>

MsgManyToo == << "m", "a", "n", "y", " ", "t", "o", "o" >>

MsgRateLimit == << "r", "a", "t", "e", " ", "l", "i", "m", "i", "t" >>

MsgLimitRate == << "L", "i", "m", "i", "t", ":", " ", "R", "a", "t", "e" >>

MsgRate == << "r", "a", "t", "e" >>

MsgLimit == << "L", "I", "M", "I", "T" >>

MsgTooShort == << "t", "o", "o", " ", "s", "h", "o", "r", "t" >>

Messages ==
    { MsgTooMany, MsgManyToo, MsgRateLimit, MsgLimitRate, MsgRate, MsgLimit, MsgTooShort }

\* the bodies tried: not JSON; JSON that is not an object; an object without an
\* error field; an object with an error field, empty or one of the messages
Bodies ==
    { [kind |-> "undecodable", has_error |-> FALSE, error |-> << >>],
      [kind |-> "array", has_error |-> FALSE, error |-> << >>],
      [kind |-> "object", has_error |-> FALSE, error |-> << >>],
      [kind |-> "object", has_error |-> TRUE, error |-> << >>] }
    \cup { [kind |-> "object", has_error |-> TRUE, error |-> m] : m \in Messages }

\* the status codes tried, all within the range HTTP defines (100..599)
Statuses == { 200, 204, 399, 400, 404, 429, 500, 599 }

Exchanges == [status : Statuses, body : Bodies]

NoExchange == [status |-> 0, body |-> [kind |-> "none", has_error |-> FALSE, error |-> << >>]]

NoOutcome == [kind |-> "none", empty |-> FALSE]

\* Response.raise_for_status(): raises for 400 <= status < 600
raise_for_status(status) == 400 <= status /\ status < 600

\* data.get("error") or ""
ErrorField(body) == IF body.has_error THEN body.error ELSE << >>

\* line 149: the throttle pattern on the lower-cased error message
ThrottlePattern(err) ==
    \/ Contains(err, << "t", "o", "o", " ", "m", "a", "n", "y" >>)
    \/ Contains(err, << "r", "a", "t", "e" >>) /\ Contains(err, << "l", "i", "m", "i", "t" >>)

\* request_json: "Ok" is a returned dict (empty: the {} of an undecodable body),
\* "Thr" a TooManyRequestsError, "Err" any other exception (HTTPError, or the
\* AttributeError of data.get on a body that is not an object)
request_json(ex) ==
    IF ex.status = 429
    THEN [kind |-> "Thr", empty |-> FALSE]
    ELSE IF ex.body.kind = "undecodable"
    THEN IF raise_for_status(ex.status)
         THEN [kind |-> "Err", empty |-> FALSE]
         ELSE [kind |-> "Ok", empty |-> TRUE]
    ELSE IF ex.body.kind # "object"
    THEN [kind |-> "Err", empty |-> FALSE]
    ELSE IF ThrottlePattern(ToLower(ErrorField(ex.body)))
    THEN [kind |-> "Thr", empty |-> FALSE]
    ELSE IF ex.status >= 400
    THEN [kind |-> "Err", empty |-> FALSE]
    ELSE [kind |-> "Ok", empty |-> FALSE]

\* one call of request_json on the exchange session.request completed
Classify ==
    /\ pc = "request"
    /\ outcome' = request_json(exchange)
    /\ pc' = "returned"
    /\ UNCHANGED << chat_per_agent, topics, accounts, call_hours, balances, restarts,
                    acct_pos, total_ok, total_fail, hit_global_limit_any, exchange,
                    send_in, send_out >>
    /\ UNCHANGED << chatVars, stakeVars, clock, disk, remote >>

(***************************** the chat phase ******************************)

\* pool = topics.get(agent_name, []); "not pool"
HasPool(agent) == agent \in topics

\* mutant of Fallback: no agent has a fallback message
FallbackNone(agent) == FALSE

\* lines 576-577 and 605-606: the message is the transaction-hash fallback
\* (get_random_tx_hash never raises: it answers the zero hash when its fetch fails)
Fallback(agent) == agent = "Sherlock" /\ ~HasPool(agent)

\* process_account: the message rule of both passes; FALSE when the agent is skipped
HasMessage(agent) == Fallback(agent) \/ HasPool(agent)

\* mutant of CapReached: ">" written for ">="
CapReachedLate(total) == total > GLOBAL_DAILY_CHAT_CAP

\* total_success_today >= GLOBAL_DAILY_CHAT_CAP
CapReached(total) == total >= GLOBAL_DAILY_CHAT_CAP

\* mutant of Attempts: the remaining capacity taken one too small
AttemptsShort(total) == Min(chat_per_agent, GLOBAL_DAILY_CHAT_CAP - total - 1)

\* attempts = min(chat_per_agent, GLOBAL_DAILY_CHAT_CAP - total_success_today)
Attempts(total) == Min(chat_per_agent, GLOBAL_DAILY_CHAT_CAP - total)

\* _send_one_chat: (ok, rate_limited) from the outcomes of chat_ai, submit_receipt
\* and get_inference_tx ("Ok": a hash or pending; "Err": a non-throttled exception
\* raised inside the poll loop, which only catches TooManyRequestsError)
_send_one_chat(chat, receipt, poll) ==
    IF chat = "Thr" THEN << FALSE, TRUE >>
    ELSE IF chat = "Err" THEN << FALSE, FALSE >>
    ELSE IF receipt = "Thr" THEN << FALSE, TRUE >>
    ELSE IF receipt = "Err" THEN << FALSE, FALSE >>
    ELSE IF poll = "Err" THEN << FALSE, FALSE >>
    ELSE << TRUE, FALSE >>

\* the (ok, rate_limited) pairs _send_one_chat can return
SendResults ==
    { _send_one_chat(c, r, p) : c \in Outcomes, r \in Outcomes, p \in { "Ok", "Err" } }

\* max_retry of the call at line 527
MAX_RETRY == 5

\* what one poll of /v1/inference can do: answer with a hash, answer without one,
\* be throttled, or raise another exception
PollOutcomes == { "Hash", "Empty", "Thr", "Err" }

\* the answers the remote gives to up to MAX_RETRY polls
PollRuns == [1..MAX_RETRY -> PollOutcomes]

\* lines 259-263: the try block of a poll catches TooManyRequestsError only
PollRaises(o) == o = "Err"

\* get_inference_tx from its j-th poll on: the hash, "" after max_retry polls
\* ("pending"), or the exception of a poll that the loop does not catch
RECURSIVE InferenceFrom(_, _)
InferenceFrom(polls, j) ==
    IF j > MAX_RETRY THEN [kind |-> "pending", polls |-> MAX_RETRY]
    ELSE IF PollRaises(polls[j]) THEN [kind |-> "raise", polls |-> j]
    ELSE IF polls[j] = "Hash" THEN [kind |-> "hash", polls |-> j]
    ELSE InferenceFrom(polls, j + 1)

\* get_inference_tx(session, access_token, rid, max_retry=5, wait_sec=8)
get_inference_tx(polls) == InferenceFrom(polls, 1)

\* the lookup as _send_one_chat sees it: a value, or an exception
PollResult(polls) == IF get_inference_tx(polls).kind = "raise" THEN "Err" ELSE "Ok"

NoSend == [chat |-> "none", receipt |-> "none", polls |-> << >>]

NoSent == [ok |-> FALSE, rate_limited |-> FALSE, lookup |-> "none", polls |-> 0]

\* one call of _send_one_chat, followed call by call
SendOne ==
    /\ pc = "send"
    /\ LET res == _send_one_chat(send_in.chat, send_in.receipt, PollResult(send_in.polls))
           reached == send_in.chat = "Ok" /\ send_in.receipt = "Ok"
           look == get_inference_tx(send_in.polls)
       IN  send_out' = [ok |-> res[1], rate_limited |-> res[2],
                        lookup |-> IF reached THEN look.kind ELSE "none",
                        polls |-> IF reached THEN look.polls ELSE 0]
    /\ pc' = "sent"
    /\ UNCHANGED << chat_per_agent, topics, accounts, call_hours, balances, restarts,
                    acct_pos, total_ok, total_fail, hit_global_limit_any, exchange,
                    outcome, send_in >>
    /\ UNCHANGED << chatVars, stakeVars, clock, disk, remote >>

\* lines 585-595 and 613-623: the bookkeeping after one send
RecordOutcome(res) ==
    /\ sent' = sent + 1
    /\ run_broken' = IF res[1] THEN FALSE
                      ELSE IF res[2] THEN run_broken
                      ELSE (run_broken \/ consecutive_429 > 0)
    /\ IF res[1]
       THEN /\ success' = success + 1
            /\ total_success_today' = total_success_today + 1
            /\ consecutive_429' = 0
            /\ UNCHANGED << failed, hit_global_limit, trips, chat_thr, chat_err >>
       ELSE /\ failed' = failed + 1
            /\ UNCHANGED << success, total_success_today >>
            /\ IF res[2]
               THEN /\ consecutive_429' = consecutive_429 + 1
                    /\ chat_thr' = TRUE
                    /\ UNCHANGED chat_err
                    /\ IF consecutive_429 + 1 >= THROTTLE_TRIP
                       THEN hit_global_limit' = TRUE /\ trips' = trips + 1
                       ELSE UNCHANGED << hit_global_limit, trips >>
               ELSE /\ chat_err' = TRUE
                    /\ UNCHANGED << consecutive_429, hit_global_limit, trips, chat_thr >>

\* mutant of BreakFirstPass: the outer loop is not left
BreakFirstPassNever(hit) == FALSE

\* line 597: "if hit_global_limit: break" after an agent's inner loop
BreakFirstPass(hit) == hit

\* lines 567-572: head of the first pass for the next agent
ChatAgentBegin ==
    /\ pc = "chat_agent"
    /\ IF agent_idx > Len(AGENT_ORDER) \/ CapReached(total_success_today)
       THEN /\ pc' = "extra_check"
            /\ UNCHANGED << agent_idx, i, attempts >>
       ELSE /\ pc' = "chat_send"
            /\ attempts' = Attempts(total_success_today)
            /\ i' = 0
            /\ UNCHANGED agent_idx
    /\ UNCHANGED << total_success_today, consecutive_429, hit_global_limit,
                    success, failed, sent, trips, chat_thr, chat_err, run_broken, fallback_first, entry, quiz_runs, quiz_steps >>
    /\ UNCHANGED << schedVars, stakeVars, clock, disk, remote >>

\* lines 573-596: one iteration of the inner loop that sends
ChatAttempt ==
    /\ pc = "chat_send"
    /\ i < attempts
    /\ ~CapReached(total_success_today)
    /\ HasMessage(AGENT_ORDER[agent_idx])
    /\ fallback_first' = IF Fallback(AGENT_ORDER[agent_idx])
                         THEN fallback_first + 1 ELSE fallback_first
    /\ UNCHANGED << entry, quiz_runs, quiz_steps >>
    /\ \E res \in SendResults : RecordOutcome(res)
    /\ IF hit_global_limit'
       THEN \* break of the inner loop, then line 597
            IF BreakFirstPass(hit_global_limit')
            THEN pc' = "extra_check" /\ UNCHANGED << agent_idx, i >>
            ELSE pc' = "chat_agent" /\ agent_idx' = agent_idx + 1 /\ UNCHANGED i
       ELSE pc' = "chat_send" /\ i' = i + 1 /\ UNCHANGED agent_idx
    /\ UNCHANGED attempts
    /\ UNCHANGED << schedVars, stakeVars, clock, disk, remote >>

\* lines 573-581 and 597: the inner loop ends (range exhausted, cap, or no topics)
ChatAgentEnd ==
    /\ pc = "chat_send"
    /\ \/ i >= attempts
       \/ CapReached(total_success_today)
       \/ ~HasMessage(AGENT_ORDER[agent_idx])
    /\ pc' = "chat_agent"
    /\ agent_idx' = agent_idx + 1
    /\ UNCHANGED << i, attempts, total_success_today, consecutive_429, hit_global_limit,
                    success, failed, sent, trips, chat_thr, chat_err, run_broken, fallback_first, entry, quiz_runs, quiz_steps >>
    /\ UNCHANGED << schedVars, stakeVars, clock, disk, remote >>

\* mutant of ExtraRound: the test of chat_per_agent is left out
ExtraRoundAnyCount(cpa, total, hit) == total < GLOBAL_DAILY_CHAT_CAP /\ ~hit

\* line 599: whether the extra balancing pass runs
ExtraRound(cpa, total, hit) ==
    cpa = 1 /\ total < GLOBAL_DAILY_CHAT_CAP /\ ~hit

\* line 599: after the first pass
ExtraCheck ==
    /\ pc = "extra_check"
    /\ IF ExtraRound(chat_per_agent, total_success_today, hit_global_limit)
       THEN pc' = "extra_agent" /\ agent_idx' = 1
       ELSE pc' = "quiz" /\ UNCHANGED agent_idx
    /\ UNCHANGED << i, attempts, total_success_today, consecutive_429, hit_global_limit,
                    success, failed, sent, trips, chat_thr, chat_err, run_broken, fallback_first, entry, quiz_runs, quiz_steps >>
    /\ UNCHANGED << schedVars, stakeVars, clock, disk, remote >>

\* lines 601-624: one iteration of the extra pass that sends
ExtraAttempt ==
    /\ pc = "extra_agent"
    /\ agent_idx <= Len(AGENT_ORDER)
    /\ ~CapReached(total_success_today)
    /\ HasMessage(AGENT_ORDER[agent_idx])
    /\ \E res \in SendResults : RecordOutcome(res)
    /\ IF hit_global_limit'
       THEN pc' = "quiz" /\ UNCHANGED agent_idx
       ELSE pc' = "extra_agent" /\ agent_idx' = agent_idx + 1
    /\ UNCHANGED << i, attempts, fallback_first, entry, quiz_runs, quiz_steps >>
    /\ UNCHANGED << schedVars, stakeVars, clock, disk, remote >>

\* lines 604-609: "continue" for an agent without topics
ExtraSkip ==
    /\ pc = "extra_agent"
    /\ agent_idx <= Len(AGENT_ORDER)
    /\ ~CapReached(total_success_today)
    /\ ~HasMessage(AGENT_ORDER[agent_idx])
    /\ pc' = "extra_agent"
    /\ agent_idx' = agent_idx + 1
    /\ UNCHANGED << i, attempts, total_success_today, consecutive_429, hit_global_limit,
                    success, failed, sent, trips, chat_thr, chat_err, run_broken, fallback_first, entry, quiz_runs, quiz_steps >>
    /\ UNCHANGED << schedVars, stakeVars, clock, disk, remote >>

\* lines 601-603: the extra pass ends (agents exhausted or cap reached)
ExtraEnd ==
    /\ pc = "extra_agent"
    /\ agent_idx > Len(AGENT_ORDER) \/ CapReached(total_success_today)
    /\ pc' = "quiz"
    /\ UNCHANGED chatVars
    /\ UNCHANGED << schedVars, stakeVars, clock, disk, remote >>

ChatNext ==
    \/ ChatAgentBegin
    \/ ChatAttempt
    \/ ChatAgentEnd
    \/ ExtraCheck
    \/ ExtraAttempt
    \/ ExtraSkip
    \/ ExtraEnd

(**************************** the durable store ****************************)

\* None, an ISO-8601 string written by ts_now_iso, or a string that does not parse
NoneTs == [kind |-> "none", t |-> 0]

BadTs == [kind |-> "bad", t |-> 0]

\* ts_now_iso(): now_jkt().isoformat()
ts_now_iso(now) == [kind |-> "iso", t |-> now]

\* hours_since(ts_iso): None for a missing or unparseable timestamp
hours_since(ts, now) ==
    IF ts.kind = "iso"
    THEN [none |-> FALSE, h |-> now - ts.t]
    ELSE [none |-> TRUE, h |-> 0]

\* mutant of OrZero: an unknown elapsed time counted as old enough
OrDue(x) == IF x.none THEN UNSTAKE_AFTER_HOURS ELSE x.h

\* "hours_since(...) or 0.0"
OrZero(x) == IF x.none \/ x.h = 0 THEN 0 ELSE x.h

\* lines 334-340: a freshly created position
NewRow(name) ==
    [name |-> name, staked |-> FALSE, last_stake_at |-> NoneTs,
     last_claim_at |-> NoneTs, last_unstake_at |-> NoneTs]

EmptyAccounts == [a \in {} |-> 0]

MissingFile == [kind |-> "missing", accounts |-> EmptyAccounts]

\* state_load(): a missing or unreadable file is the empty state
state_load == IF disk.kind = "ok" THEN disk.accounts ELSE EmptyAccounts

\* state_save(st): the whole dict replaces the file
state_save(s) == [kind |-> "ok", accounts |-> s]

\* mutant of ensure_account_state: the dict is rebuilt with the one account only
EnsureAloneInStore(s, address) ==
    LET subs == IF address \in DOMAIN s THEN s[address] ELSE EmptyAccounts
    IN  [a \in { address } |-> [n \in Targets |-> IF n \in DOMAIN subs THEN subs[n] ELSE NewRow(n)]]

\* ensure_account_state(st, address): adds what is missing, keeps what is there
ensure_account_state(s, address) ==
    LET subs == IF address \in DOMAIN s THEN s[address] ELSE EmptyAccounts
        full == [n \in Targets |-> IF n \in DOMAIN subs THEN subs[n] ELSE NewRow(n)]
    IN  [a \in (DOMAIN s) \cup {address} |-> IF a = address THEN full ELSE s[a]]

(*************************** the staking cycle *****************************)

\* the address process_account was called with
address == accounts[acct_pos]

\* row = acct[subnet] for the target at index n of SUBNET_ORDER
Row(n) == st[address][SUBNET_ORDER[n]]

\* mutant of CanStake: ">" written for ">="
CanStakeAbove(bal) == bal > STAKE_MIN * BalScale

\* kite_bal >= STAKE_MIN
CanStake(bal) == bal >= STAKE_MIN * BalScale

\* hrs >= UNSTAKE_AFTER_HOURS
UnstakeDue(hrs) == hrs >= UNSTAKE_AFTER_HOURS

\* a blocking call returns d hours later (the clock is capped at MaxClock)
Elapse(d) == d \in call_hours /\ clock + d <= MaxClock /\ clock' = clock + d

\* history of one remote call of the staking cycle and its outcome
Call(o) ==
    /\ stk_calls' = stk_calls + 1
    /\ IF o = "Thr" THEN stk_throttled' = TRUE ELSE UNCHANGED stk_throttled

\* "return (staked_count, claimed_count, unstaked_count)" back into process_account
Return == pc' = "stats" /\ UNCHANGED k

\* mutant of ThrottledReturn: the throttle is handled like any other exception
ThrottledContinue ==
    IF k < Len(SUBNET_ORDER)
    THEN pc' = pc /\ k' = k + 1 /\ UNCHANGED disk
    ELSE disk' = state_save(st) /\ Return

\* mutant of ThrottledReturn: the handler saves and ends the process
ThrottledExit == disk' = state_save(st) /\ pc' = "dead" /\ UNCHANGED k

\* mutant of ThrottledReturn: the early return forgets state_save
ThrottledReturnNoSave == UNCHANGED disk /\ Return

\* lines 408-409, 444-445, 465-466, 499-500: the throttled handler of a target call
ThrottledReturn == disk' = state_save(st) /\ Return

\* lines 381: the throttled handler of the first balance fetch
BalanceThrottledReturn == UNCHANGED disk /\ Return

\* lines 505-506: the normal end of staking_cycle
FinalReturn == disk' = state_save(st') /\ Return

\* lines 372-390: state_load, ensure_account_state, the first get_balances
StakingBegin ==
    /\ pc = "staking"
    /\ st' = ensure_account_state(state_load, address)
    /\ \E o \in Outcomes, b \in balances, d \in CallHours :
         /\ Elapse(d)
         /\ stk_calls' = 1
         /\ stk_throttled' = (o = "Thr")
         /\ CASE o = "Thr" -> /\ BalanceThrottledReturn
                              /\ kite_bal' = 0
              [] o = "Err" -> /\ kite_bal' = 0
                              /\ pc' = "claim" /\ k' = 1
                              /\ UNCHANGED disk
              [] o = "Ok"  -> /\ kite_bal' = b
                              /\ pc' = IF CanStake(b) THEN "stake" ELSE "claim"
                              /\ k' = 1
                              /\ UNCHANGED disk
         /\ fetched' = kite_bal'
    /\ delegate_err' = FALSE /\ idle_at_refetch' = {}
    /\ staked_count' = 0 /\ claimed_count' = 0 /\ unstaked_count' = 0
    /\ quiz_steps' = << >>
    /\ UNCHANGED << agent_idx, i, attempts, total_success_today, consecutive_429,
                    hit_global_limit, success, failed, sent, trips, chat_thr, chat_err,
                    run_broken, fallback_first, entry, quiz_runs >>
    /\ UNCHANGED << schedVars, remote >>

\* mutant of Delegated: the flag is set and the timestamp is forgotten
DelegatedNoStamp(row, now) == [row EXCEPT !.staked = TRUE]

\* mutant of Delegated: one timestamp, taken when the cycle started, for every stake
DelegatedCycleStamp(row, now) ==
    [row EXCEPT !.staked = TRUE, !.last_stake_at = ts_now_iso(0)]

\* lines 402-403 and 493-494: the position after a successful delegate
Delegated(row, now) == [row EXCEPT !.staked = TRUE, !.last_stake_at = ts_now_iso(now)]

\* mutant of Claimed: the claim also restarts the stake timer
ClaimedRestamp(row, now) ==
    [row EXCEPT !.last_claim_at = ts_now_iso(now), !.last_stake_at = ts_now_iso(now)]

\* line 440: the position after a successful claim
Claimed(row, now) == [row EXCEPT !.last_claim_at = ts_now_iso(now)]

\* mutant of Undelegated: the staked flag is not cleared
UndelegatedStillStaked(row, now) == [row EXCEPT !.last_unstake_at = ts_now_iso(now)]

\* lines 460-461: the position after a successful undelegate
Undelegated(row, now) == [row EXCEPT !.staked = FALSE, !.last_unstake_at = ts_now_iso(now)]

\* the loop over SUBNET_ORDER moves on; after the last target the phase ends
Advance(next) ==
    IF k < Len(SUBNET_ORDER)
    THEN pc' = pc /\ k' = k + 1 /\ UNCHANGED disk
    ELSE IF next = "return"
         THEN FinalReturn
         ELSE pc' = next /\ k' = 1 /\ UNCHANGED disk

\* mutant of Failed: any exception ends the staking cycle as a throttle does
FailedAborts(next) == ThrottledReturn

\* lines 410-411, 446-447, 467-475, 501-502: the handler of any other exception
\* (the "too short" HTTPError of an undelegate included) only prints; the loop goes on
Failed(next) == Advance(next)

\* lines 395-411 (phase "stake") and 488-502 (phase "restake"): delegate one unit
DelegateCall(next) ==
    /\ ~Row(k).staked /\ CanStake(kite_bal)
    /\ UNCHANGED << fetched, idle_at_refetch >>
    /\ \E o \in Outcomes, d \in CallHours :
         /\ Elapse(d)
         /\ Call(o)
         /\ delegate_err' = (delegate_err \/ o = "Err")
         /\ CASE o = "Ok" ->
                   /\ st' = [st EXCEPT ![address][SUBNET_ORDER[k]] = Delegated(@, clock')]
                   /\ staked_count' = staked_count + 1
                   /\ kite_bal' = kite_bal - BalScale
                   /\ remote' = [remote EXCEPT ![address][SUBNET_ORDER[k]] = "delegate"]
                   /\ Advance(next)
              [] o = "Thr" ->
                   /\ UNCHANGED << st, staked_count, kite_bal, remote >>
                   /\ ThrottledReturn
              [] o = "Err" ->
                   /\ UNCHANGED << st, staked_count, kite_bal, remote >>
                   /\ Failed(next)
    /\ UNCHANGED << claimed_count, unstaked_count >>
    /\ UNCHANGED << schedVars, chatVars >>

\* the "if not row['staked'] and kite_bal >= STAKE_MIN" test fails: no call
DelegateSkip(next) ==
    /\ ~(~Row(k).staked /\ CanStake(kite_bal))
    /\ UNCHANGED << st, kite_bal, staked_count, claimed_count, unstaked_count,
                    stk_calls, stk_throttled, fetched, delegate_err, idle_at_refetch >>
    /\ Advance(next)
    /\ UNCHANGED << schedVars, chatVars, clock, remote >>

\* lines 392-411
StakeCall == pc = "stake" /\ DelegateCall("claim")

StakeSkip == pc = "stake" /\ DelegateSkip("claim")

\* lines 430-447: claim rewards of a staked target
ClaimCall ==
    /\ pc = "claim"
    /\ Row(k).staked
    /\ UNCHANGED << fetched, delegate_err, idle_at_refetch >>
    /\ \E o \in Outcomes, d \in CallHours :
         /\ Elapse(d)
         /\ Call(o)
         /\ CASE o = "Ok" ->
                   /\ st' = [st EXCEPT ![address][SUBNET_ORDER[k]] = Claimed(@, clock')]
                   /\ claimed_count' = claimed_count + 1
                   /\ Advance("unstake")
              [] o = "Thr" ->
                   /\ ThrottledReturn
                   /\ UNCHANGED << st, claimed_count >>
              [] o = "Err" ->
                   /\ Failed("unstake")
                   /\ UNCHANGED << st, claimed_count >>
    /\ UNCHANGED << kite_bal, staked_count, unstaked_count >>
    /\ UNCHANGED << schedVars, chatVars, remote >>

ClaimSkip ==
    /\ pc = "claim"
    /\ ~Row(k).staked
    /\ Advance("unstake")
    /\ UNCHANGED << st, kite_bal, staked_count, claimed_count, unstaked_count,
                    stk_calls, stk_throttled, fetched, delegate_err, idle_at_refetch >>
    /\ UNCHANGED << schedVars, chatVars, clock, remote >>

\* lines 452-454: the target is staked and old enough
UnstakeGate(row, now) ==
    row.staked /\ UnstakeDue(OrZero(hours_since(row.last_stake_at, now)))

\* lines 449-475: undelegate one unit ("too short" and other errors only log)
UnstakeCall ==
    /\ pc = "unstake"
    /\ UnstakeGate(Row(k), clock)
    /\ UNCHANGED << fetched, delegate_err, idle_at_refetch >>
    /\ \E o \in Outcomes, d \in CallHours :
         /\ Elapse(d)
         /\ Call(o)
         /\ CASE o = "Ok" ->
                   /\ st' = [st EXCEPT ![address][SUBNET_ORDER[k]] = Undelegated(@, clock')]
                   /\ unstaked_count' = unstaked_count + 1
                   /\ remote' = [remote EXCEPT ![address][SUBNET_ORDER[k]] = "undelegate"]
                   /\ Advance("rebalance")
              [] o = "Thr" ->
                   /\ ThrottledReturn
                   /\ UNCHANGED << st, unstaked_count, remote >>
              [] o = "Err" ->
                   /\ Failed("rebalance")
                   /\ UNCHANGED << st, unstaked_count, remote >>
    /\ UNCHANGED << kite_bal, staked_count, claimed_count >>
    /\ UNCHANGED << schedVars, chatVars >>

\* lines 476-478: not staked, or staked for less than 24 hours: no call
UnstakeSkip ==
    /\ pc = "unstake"
    /\ ~UnstakeGate(Row(k), clock)
    /\ Advance("rebalance")
    /\ UNCHANGED << st, kite_bal, staked_count, claimed_count, unstaked_count,
                    stk_calls, stk_throttled, fetched, delegate_err, idle_at_refetch >>
    /\ UNCHANGED << schedVars, chatVars, clock, remote >>

\* lines 479-483 and 503-506: the balance is fetched again; any exception means 0.0
Rebalance ==
    /\ pc = "rebalance"
    /\ \E o \in Outcomes, b \in balances, d \in CallHours :
         /\ Elapse(d)
         /\ Call(o)
         /\ kite_bal' = IF o = "Ok" THEN b ELSE 0
         /\ fetched' = kite_bal'
         /\ idle_at_refetch' = { n \in Targets : ~st[address][n].staked }
         /\ UNCHANGED << st, staked_count, claimed_count, unstaked_count, delegate_err >>
         /\ IF CanStake(kite_bal')
            THEN pc' = "restake" /\ k' = 1 /\ UNCHANGED disk
            ELSE FinalReturn
    /\ UNCHANGED << schedVars, chatVars, remote >>

\* lines 485-506
RestakeCall == pc = "restake" /\ DelegateCall("return")

RestakeSkip == pc = "restake" /\ DelegateSkip("return")

StakingNext ==
    \/ StakingBegin
    \/ StakeCall
    \/ StakeSkip
    \/ ClaimCall
    \/ ClaimSkip
    \/ UnstakeCall
    \/ UnstakeSkip
    \/ Rebalance
    \/ RestakeCall
    \/ RestakeSkip

(******************* the account pipeline and the scheduler ****************)

\* the locals of process_account before its chat phase (lines 539, 564-566)
ChatLocalsInit ==
    /\ agent_idx' = 1 /\ i' = 0 /\ attempts' = 0
    /\ total_success_today' = 0 /\ consecutive_429' = 0 /\ hit_global_limit' = FALSE
    /\ success' = 0 /\ failed' = 0
    /\ sent' = 0 /\ trips' = 0 /\ chat_thr' = FALSE /\ chat_err' = FALSE
    /\ run_broken' = FALSE
    /\ fallback_first' = 0
    /\ quiz_runs' = 0 /\ quiz_steps' = << >>

\* no staking_cycle frame exists
StakeLocalsInit ==
    /\ st' = EmptyAccounts /\ kite_bal' = 0 /\ k' = 1
    /\ staked_count' = 0 /\ claimed_count' = 0 /\ unstaked_count' = 0
    /\ stk_calls' = 0 /\ stk_throttled' = FALSE /\ fetched' = 0
    /\ delegate_err' = FALSE /\ idle_at_refetch' = {}

\* mutant of RunCycleAfter: the flag is recorded but the loop is not left
RunCycleAfterNoBreak(ok, fail, hit) ==
    /\ total_ok' = total_ok + ok
    /\ total_fail' = total_fail + fail
    /\ hit_global_limit_any' = (hit_global_limit_any \/ hit)
    /\ IF acct_pos < Len(accounts)
       THEN pc' = "account" /\ acct_pos' = acct_pos + 1
       ELSE pc' = "countdown" /\ UNCHANGED acct_pos
    /\ UNCHANGED << chat_per_agent, topics, accounts, call_hours, balances, restarts, netVars >>

\* lines 702-712: run_cycle takes (ok, fail, hit_limit) from process_account
RunCycleAfter(ok, fail, hit) ==
    /\ total_ok' = total_ok + ok
    /\ total_fail' = total_fail + fail
    /\ IF hit
       THEN hit_global_limit_any' = TRUE /\ pc' = "countdown" /\ UNCHANGED acct_pos
       ELSE /\ UNCHANGED hit_global_limit_any
            /\ IF acct_pos < Len(accounts)
               THEN pc' = "account" /\ acct_pos' = acct_pos + 1
               ELSE pc' = "countdown" /\ UNCHANGED acct_pos
    /\ UNCHANGED << chat_per_agent, topics, accounts, call_hours, balances, restarts, netVars >>

\* lines 732-735 and 664-700: a cycle starts
Main ==
    /\ pc = "main"
    /\ pc' = "account"
    /\ acct_pos' = 1
    /\ total_ok' = 0 /\ total_fail' = 0 /\ hit_global_limit_any' = FALSE
    /\ UNCHANGED << chat_per_agent, topics, accounts, call_hours, balances, restarts, netVars >>
    /\ UNCHANGED << chatVars, stakeVars, clock, disk, remote >>

\* mutant of AuthHit: a failed derivation or authentication never reports the limit
AuthHitNever(o) == FALSE

\* mutant of AuthHit: every failed derivation or authentication reports the limit
AuthHitAlways(o) == TRUE

\* lines 549-554 and 558-563: the third component of the early return
AuthHit(o) == o = "Thr"

\* lines 539-566: smart-account derivation and authentication
AccountBegin ==
    /\ pc = "account"
    /\ ChatLocalsInit
    /\ \E derive \in Outcomes, auth \in Outcomes :
         IF derive # "Ok"
         THEN RunCycleAfter(0, 1, AuthHit(derive)) /\ entry' = derive
         ELSE IF auth # "Ok"
              THEN RunCycleAfter(0, 1, AuthHit(auth)) /\ entry' = auth
              ELSE pc' = "chat_agent" /\ entry' = "Ok" /\ UNCHANGED schedVars
    /\ UNCHANGED << stakeVars, clock, disk, remote >>

\* what a call of the quiz can do: answer what is asked for ("Ok"), answer without
\* it ("Empty": no quiz_id, no questions, a false result), fail, or be throttled
QuizOutcomes == { "Ok", "Empty", "Err", "Thr" }

\* mutant of QuizSteps: every step is attempted whatever the step before did
QuizStepsAll(create, fetch, submit) == << create, fetch, submit >>

\* lines 627-629: create_quiz, get_quiz_and_answer and submit_quiz are called in
\* turn inside one try block; a step that raises ends the block
QuizSteps(create, fetch, submit) ==
    IF create # "Ok" THEN << create >>
    ELSE IF fetch # "Ok" THEN << create, fetch >>
    ELSE << create, fetch, submit >>

\* lines 630-632: "if ok" after submit_quiz returned
QuizOk(steps) == steps = << "Ok", "Ok", "Ok" >>

\* lines 625-641: the daily quiz
Quiz ==
    /\ pc = "quiz"
    /\ \E create \in QuizOutcomes, fetch \in QuizOutcomes, submit \in QuizOutcomes :
         /\ quiz_steps' = QuizSteps(create, fetch, submit)
         /\ IF QuizOk(quiz_steps')
            THEN success' = success + 1 /\ UNCHANGED failed
            ELSE failed' = failed + 1 /\ UNCHANGED success
    /\ quiz_runs' = quiz_runs + 1
    /\ pc' = "staking"
    /\ UNCHANGED << agent_idx, i, attempts, total_success_today, consecutive_429,
                    hit_global_limit, sent, trips, chat_thr, chat_err, run_broken, fallback_first, entry >>
    /\ UNCHANGED << schedVars, stakeVars, clock, disk, remote >>

\* lines 644-661: best-effort statistics, then the return into run_cycle
Stats ==
    /\ pc = "stats"
    /\ RunCycleAfter(success, failed, hit_global_limit)
    /\ ChatLocalsInit
    /\ UNCHANGED entry
    /\ StakeLocalsInit
    /\ UNCHANGED << clock, disk, remote >>

\* mutant of NextRun: the next cycle is due at once
NextRunAtOnce(now) == now

\* line 740: next_run = now_jkt() + dt.timedelta(hours=24), after run_cycle returned
NextRun(now) == now + CYCLE_WAIT_HOURS

\* lines 739-741 and 714-726: wait until next_run, or longer
Countdown ==
    /\ pc = "countdown"
    /\ \E over \in { 0, CYCLE_WAIT_HOURS } :
         /\ NextRun(clock) + over <= MaxClock
         /\ clock' = NextRun(clock) + over
    /\ pc' = "main"
    /\ UNCHANGED << schedVars, chatVars, stakeVars, disk, remote >>

\* lines 744-747 and 126-128: a KeyboardInterrupt ends the process wherever it is
Interrupt ==
    /\ pc # "dead"
    /\ pc' = "dead"
    /\ ChatLocalsInit
    /\ entry' = "none"
    /\ StakeLocalsInit
    /\ acct_pos' = 1
    /\ total_ok' = 0 /\ total_fail' = 0 /\ hit_global_limit_any' = FALSE
    /\ UNCHANGED << chat_per_agent, topics, accounts, call_hours, balances, restarts, netVars >>
    /\ UNCHANGED << clock, disk, remote >>

\* the process is started again: the store is what the last run left
Restart ==
    /\ pc = "dead"
    /\ restarts < MaxRestarts
    /\ restarts' = restarts + 1
    /\ \E d \in DownHours : clock + d <= MaxClock /\ clock' = clock + d
    /\ pc' = "main"
    /\ UNCHANGED << chat_per_agent, topics, accounts, call_hours, balances,
                    acct_pos, total_ok, total_fail, hit_global_limit_any, netVars >>
    /\ UNCHANGED << chatVars, stakeVars, disk, remote >>

NoRemote == [a \in Addresses |-> [n \in Targets |-> "none"]]

\* a process that has not yet entered run_cycle
InitLocals ==
    /\ acct_pos = 1
    /\ total_ok = 0 /\ total_fail = 0 /\ hit_global_limit_any = FALSE
    /\ agent_idx = 1 /\ i = 0 /\ attempts = 0
    /\ total_success_today = 0 /\ consecutive_429 = 0 /\ hit_global_limit = FALSE
    /\ success = 0 /\ failed = 0
    /\ sent = 0 /\ trips = 0 /\ chat_thr = FALSE /\ chat_err = FALSE
    /\ run_broken = FALSE
    /\ fallback_first = 0 /\ entry = "none"
    /\ quiz_runs = 0 /\ quiz_steps = << >>
    /\ st = EmptyAccounts /\ kite_bal = 0 /\ k = 1
    /\ staked_count = 0 /\ claimed_count = 0 /\ unstaked_count = 0
    /\ stk_calls = 0 /\ stk_throttled = FALSE /\ fetched = 0
    /\ delegate_err = FALSE /\ idle_at_refetch = {}

\* no exchange is being classified and no single send is being followed
NetIdle ==
    /\ exchange = NoExchange /\ outcome = NoOutcome
    /\ send_in = NoSend /\ send_out = NoSent

(***************************** specifications ******************************)

\* SpecChat: the chat phase of one account-cycle, for every prompt answer up to
\* MaxChatPerAgent and every combination of empty and non-empty topic pools
InitChat ==
    /\ pc = "chat_agent"
    /\ chat_per_agent \in 0..MaxChatPerAgent
    /\ topics \in PoolChoices
    /\ accounts = << 1 >>
    /\ call_hours = { 0 }
    /\ balances = { 0 }
    /\ restarts = 0
    /\ clock = 0
    /\ disk = MissingFile
    /\ remote = NoRemote
    /\ InitLocals
    /\ NetIdle

SpecChat == InitChat /\ [][ChatNext]_vars

\* the store after a cycle, 24 h ago, that staked and claimed every target
AllStaked ==
    state_save([a \in { 1 } |->
        [n \in Targets |-> Claimed(Delegated(NewRow(n), 0 - UNSTAKE_AFTER_HOURS),
                                   0 - UNSTAKE_AFTER_HOURS)]])

\* SpecAccount: one call of process_account, with no store or with every target
\* staked 24 h ago.  Only Sherlock has a message (its fallback), so the chat phase
\* is at most THROTTLE_TRIP sends; remote calls return within the hour.
InitAccount ==
    /\ pc = "account"
    /\ chat_per_agent \in { 1, THROTTLE_TRIP }
    /\ topics = {}
    /\ accounts = << 1 >>
    /\ call_hours = { 0 }
    /\ balances = { 0, MaxKite * BalScale }
    /\ restarts = 0
    /\ clock = 0
    /\ disk \in { MissingFile, AllStaked }
    /\ remote = NoRemote
    /\ InitLocals
    /\ NetIdle

NextAccount ==
    \/ AccountBegin
    \/ ChatNext
    \/ Quiz
    \/ StakingNext
    \/ Stats

SpecAccount == InitAccount /\ [][NextAccount]_vars

\* the positions a store may hold for one target when a staking cycle starts at
\* hour 0: never staked, staked 24 h ago, staked just now, staked with a missing
\* or unparseable last_stake_at, unstaked again
RowChoices(n) ==
    { NewRow(n),
      Delegated(NewRow(n), 0 - UNSTAKE_AFTER_HOURS),
      Delegated(NewRow(n), 0),
      [NewRow(n) EXCEPT !.staked = TRUE],
      [NewRow(n) EXCEPT !.staked = TRUE, !.last_stake_at = BadTs],
      Undelegated(Claimed(Delegated(NewRow(n), 0 - UNSTAKE_AFTER_HOURS),
                          0 - UNSTAKE_AFTER_HOURS), 0) }

\* the store files tried: missing, unreadable, or holding the account's positions
StoreChoices ==
    { MissingFile, [kind |-> "corrupt", accounts |-> EmptyAccounts] }
    \cup { state_save([a \in { 1 } |-> subs]) :
             subs \in { f \in [Targets -> UNION { RowChoices(n) : n \in Targets }] :
                          \A n \in Targets : f[n] \in RowChoices(n) } }

\* SpecStake: one call of staking_cycle for account 1, for every store tried
InitStake ==
    /\ pc = "staking"
    /\ chat_per_agent = 1
    /\ topics = {}
    /\ accounts = << 1 >>
    /\ call_hours = CallHours
    /\ balances = Balances
    /\ restarts = 0
    /\ clock = 0
    /\ disk \in StoreChoices
    /\ remote = NoRemote
    /\ InitLocals
    /\ NetIdle

SpecStake == InitStake /\ [][StakingNext]_vars

\* Spec: the program run forever for one account, started with no store, with the
\* prompt answered 0 (no chat is sent) and remote calls that return within the hour;
\* the process may be interrupted and started again
Init ==
    /\ pc = "main"
    /\ chat_per_agent = 0
    /\ topics = {}
    /\ accounts = << 1 >>
    /\ call_hours = { 0 }
    /\ balances = { 0, MaxKite * BalScale }
    /\ restarts = 0
    /\ clock = 0
    /\ disk = MissingFile
    /\ remote = NoRemote
    /\ InitLocals
    /\ NetIdle

Next ==
    \/ Main
    \/ AccountBegin
    \/ ChatAgentBegin
    \/ ChatAgentEnd
    \/ ExtraCheck
    \/ Quiz
    \/ StakingNext
    \/ Stats
    \/ Countdown
    \/ Interrupt
    \/ Restart

Spec == Init /\ [][Next]_vars

\* SpecCycle: the scheduler run over two accounts, in either input order, started
\* with no store; only Sherlock has a message (its fallback) and the prompt was
\* answered THROTTLE_TRIP, so a chat phase can trip the global limit; the accounts
\* hold no balance; remote calls return within the hour; the process is not
\* interrupted
InitCycle ==
    /\ pc = "main"
    /\ chat_per_agent = THROTTLE_TRIP
    /\ topics = {}
    /\ accounts \in { << 1, 2 >>, << 2, 1 >> }
    /\ call_hours = { 0 }
    /\ balances = { 0 }
    /\ restarts = 0
    /\ clock = 0
    /\ disk = MissingFile
    /\ remote = NoRemote
    /\ InitLocals
    /\ NetIdle

NextCycle ==
    \/ Main
    \/ AccountBegin
    \/ ChatAgentBegin
    \/ ChatAttempt
    \/ ChatAgentEnd
    \/ ExtraCheck
    \/ Quiz
    \/ StakingBegin
    \/ ClaimSkip
    \/ UnstakeSkip
    \/ Rebalance
    \/ Stats
    \/ Countdown

SpecCycle == InitCycle /\ [][NextCycle]_vars

\* SpecLive: the program run for one account with every remote call of the
\* pipeline able to succeed, fail or be throttled; the process is not interrupted,
\* and a step that can be taken is eventually taken (the thread of control runs)
InitLive ==
    /\ pc = "main"
    /\ chat_per_agent = 1
    /\ topics = {}
    /\ accounts = << 1 >>
    /\ call_hours = { 0 }
    /\ balances = { 0, MaxKite * BalScale }
    /\ restarts = 0
    /\ clock = 0
    /\ disk = MissingFile
    /\ remote = NoRemote
    /\ InitLocals
    /\ NetIdle

NextLive ==
    \/ Main
    \/ AccountBegin
    \/ ChatNext
    \/ Quiz
    \/ StakingNext
    \/ Stats
    \/ Countdown

SpecLive == InitLive /\ [][NextLive]_vars /\ WF_vars(NextLive)

\* SpecClassify: request_json applied to one completed exchange, for every status
\* and body tried
InitClassify ==
    /\ pc = "request"
    /\ exchange \in Exchanges
    /\ outcome = NoOutcome
    /\ send_in = NoSend /\ send_out = NoSent
    /\ chat_per_agent = 1
    /\ topics = {}
    /\ accounts = << 1 >>
    /\ call_hours = { 0 }
    /\ balances = { 0 }
    /\ restarts = 0
    /\ clock = 0
    /\ disk = MissingFile
    /\ remote = NoRemote
    /\ InitLocals

SpecClassify == InitClassify /\ [][Classify]_vars

\* SpecWait: the program run for one account over two days, not interrupted, with
\* remote calls of the staking cycle that return at once or a day later; the prompt
\* was answered 0 (no chat is sent) and the clock is read in hours relative to the
\* start of the second day
InitWait ==
    /\ pc = "main"
    /\ chat_per_agent = 0
    /\ topics = {}
    /\ accounts = << 1 >>
    /\ call_hours = CallHours
    /\ balances = { 0, MaxKite * BalScale }
    /\ restarts = 0
    /\ clock = 0 - CYCLE_WAIT_HOURS
    /\ disk = MissingFile
    /\ remote = NoRemote
    /\ InitLocals
    /\ NetIdle

NextWait ==
    \/ Main
    \/ AccountBegin
    \/ ChatAgentBegin
    \/ ChatAgentEnd
    \/ ExtraCheck
    \/ Quiz
    \/ StakingNext
    \/ Stats
    \/ Countdown

SpecWait == InitWait /\ [][NextWait]_vars

\* the positions the store holds for an account other than the one being processed:
\* one target staked a day ago, one unstaked again, one staked with a last_stake_at
\* that does not parse
OtherRows ==
    [n \in Targets |->
        IF n = SUBNET_ORDER[1] THEN Delegated(NewRow(n), 0 - UNSTAKE_AFTER_HOURS)
        ELSE IF n = SUBNET_ORDER[2]
        THEN Undelegated(Delegated(NewRow(n), 0 - UNSTAKE_AFTER_HOURS), 0)
        ELSE [NewRow(n) EXCEPT !.staked = TRUE, !.last_stake_at = BadTs]]

\* the positions the store may hold for the account being processed: never staked,
\* or every target staked and claimed a day ago
OwnRows ==
    { [n \in Targets |-> NewRow(n)],
      [n \in Targets |-> Claimed(Delegated(NewRow(n), 0 - UNSTAKE_AFTER_HOURS),
                                 0 - UNSTAKE_AFTER_HOURS)] }

\* the store files tried: missing, unreadable, or holding any set of accounts
SharedStores ==
    { MissingFile, [kind |-> "corrupt", accounts |-> EmptyAccounts] }
    \cup { state_save([a \in S |-> IF a = 1 THEN own ELSE OtherRows]) :
             S \in SUBSET Addresses, own \in OwnRows }

\* SpecShared: one call of staking_cycle for account 1 on a store that other
\* accounts use as well; remote calls return within the hour
InitShared ==
    /\ pc = "staking"
    /\ chat_per_agent = 1
    /\ topics = {}
    /\ accounts = << 1 >>
    /\ call_hours = { 0 }
    /\ balances = { 0, MaxKite * BalScale }
    /\ restarts = 0
    /\ clock = 0
    /\ disk \in SharedStores
    /\ remote = NoRemote
    /\ InitLocals
    /\ NetIdle

SpecShared == InitShared /\ [][StakingNext]_vars

\* SpecSend: _send_one_chat applied once, for every outcome of chat_ai and
\* submit_receipt and every run of answers to the polls of the lookup
InitSend ==
    /\ pc = "send"
    /\ send_in \in [chat : Outcomes, receipt : Outcomes, polls : PollRuns]
    /\ send_out = NoSent
    /\ exchange = NoExchange /\ outcome = NoOutcome
    /\ chat_per_agent = 1
    /\ topics = {}
    /\ accounts = << 1 >>
    /\ call_hours = { 0 }
    /\ balances = { 0 }
    /\ restarts = 0
    /\ clock = 0
    /\ disk = MissingFile
    /\ remote = NoRemote
    /\ InitLocals

SpecSend == InitSend /\ [][SendOne]_vars

(********************************* claims **********************************)

\* agents that get a message: a non-empty topic pool, or the Sherlock fallback
Available == { a \in Agents : a \in topics \/ a = "Sherlock" }

\* totalAvailableAgentSlots
Slots == chat_per_agent * Cardinality(Available)

\* C1: in one account-cycle the number of successful chat sends never exceeds
\* GLOBAL_DAILY_CHAT_CAP, over the first pass and the extra pass together.
C1_CapNeverExceeded ==
    total_success_today <= GLOBAL_DAILY_CHAT_CAP /\ success <= GLOBAL_DAILY_CHAT_CAP

\* C1 witness: the cap is reached in the extra pass, after a failed send in the first
C1_Witness ==
    /\ pc = "quiz" /\ chat_per_agent = 1
    /\ total_success_today = GLOBAL_DAILY_CHAT_CAP
    /\ sent > GLOBAL_DAILY_CHAT_CAP

\* C2 as stated: without a throttled outcome the chat phase ends with at least
\* min(cap, slots) successful sends, also when sends fail with a non-throttled error.
C2_Original ==
    (pc = "quiz" /\ chat_per_agent >= 1 /\ ~chat_thr)
        => total_success_today >= Min(GLOBAL_DAILY_CHAT_CAP, Slots)

\* C2 amended: without a throttled outcome the chat phase ends with at least
\* min(cap, slots) sends issued, and with at least that many successful sends when
\* no send failed.
C2_Amended ==
    (pc = "quiz" /\ chat_per_agent >= 1 /\ ~chat_thr)
        => /\ sent >= Min(GLOBAL_DAILY_CHAT_CAP, Slots)
           /\ ~chat_err => total_success_today >= Min(GLOBAL_DAILY_CHAT_CAP, Slots)

\* C2 witness: two sends to each of three agents, all successful, below the cap
C2_Witness ==
    /\ pc = "quiz" /\ chat_per_agent = 2 /\ ~chat_thr /\ ~chat_err
    /\ Cardinality(Available) = 3
    /\ total_success_today = Slots

\* C3: when the consecutive-throttle counter reaches five the global-limit flag is
\* set, once, and no further chat send is issued in the account-cycle; the counter
\* is changed by a send only, so it carries across agents and across the two passes.
C3_TripHaltsChat ==
    [][ /\ consecutive_429' >= THROTTLE_TRIP => hit_global_limit'
        /\ hit_global_limit => (sent' = sent /\ hit_global_limit' /\ trips' = trips)
        /\ trips' <= 1
        /\ sent' = sent => consecutive_429' = consecutive_429 ]_vars

\* C3 witness: the flag trips on the second send of the extra pass, the run of five
\* throttled outcomes having started in the first pass
C3_Witness ==
    /\ pc = "quiz" /\ hit_global_limit /\ chat_per_agent = 1
    /\ topics = Agents
    /\ sent = Len(AGENT_ORDER) + 2

\* C4: after the global-limit flag trips in the chat phase no staking attempt is
\* issued for that account in the same cycle.
C4_NoStakingAfterTrip == hit_global_limit => stk_calls = 0

\* C5: once a remote call of staking_cycle returned a throttled outcome, no further
\* remote call is issued by that staking cycle.
C5_ThrottleAbortsStaking == [][stk_throttled => stk_calls' = stk_calls]_vars

\* C5 witness: a throttle after a successful stake, with targets left in the phase
C5_Witness ==
    /\ pc = "stats" /\ stk_throttled
    /\ k < Len(SUBNET_ORDER) /\ staked_count > 0

\* the store as the program reads it for the account of this cycle
Persisted == ensure_account_state(state_load, address)

\* C6: on every return of staking_cycle the persisted positions equal the in-memory
\* positions, and the file itself was written if a position was changed.
C6_PersistedAtReturn ==
    pc = "stats"
        => /\ Persisted = st
           /\ staked_count + claimed_count + unstaked_count > 0 => disk = state_save(st)

\* C6 witness: a throttled early return after an unstake and a claim
C6_Witness ==
    pc = "stats" /\ stk_throttled /\ unstaked_count > 0 /\ claimed_count > 0

\* C7: the store is written at every mutation, before the next remote call is issued.
C7_SavedBeforeNextCall ==
    [][(pc # "staking" /\ stk_calls' # stk_calls) => Persisted = st]_vars

\* the staked flag of a position as the program holds it: in the loaded state while
\* staking_cycle runs, in the store otherwise
StakedFlag(n) ==
    IF pc \in { "stake", "claim", "unstake", "rebalance", "restake", "stats" }
    THEN st[address][n].staked
    ELSE Persisted[address][n].staked

\* C8: the staked flag of a position is true iff the last successful call for it,
\* among delegate and undelegate, was a delegate.
C8_StakedIffLastDelegate ==
    pc # "dead" => \A n \in Targets : StakedFlag(n) <=> remote[address][n] = "delegate"

\* C9: an undelegate call is issued only for a staked target whose last_stake_at is
\* at least 24 hours old; a staked target with a younger, missing or unparseable
\* last_stake_at gets no call and its position is left as it is.
C9_UnstakeOnlyWhenDue ==
    [][ pc = "unstake" =>
          LET row == Row(k)
              elapsed == IF row.last_stake_at.kind = "iso"
                         THEN clock - row.last_stake_at.t ELSE 0
          IN  /\ stk_calls' # stk_calls => (row.staked /\ elapsed >= 24)
              /\ (row.staked /\ elapsed < 24) => (stk_calls' = stk_calls /\ st' = st) ]_vars

\* C9 witness: the unstake phase ended having unstaked one target and passed over a
\* staked target whose last_stake_at does not parse
C9_Witness ==
    /\ pc = "rebalance" /\ unstaked_count = 1
    /\ \E n \in Targets : st[address][n].staked /\ st[address][n].last_stake_at = BadTs

\* the targets that were idle when the staking cycle loaded the store
IdleAtLoad == { n \in Targets : ~Persisted[address][n].staked }

\* the first m members of a set of targets, in SUBNET_ORDER
FirstInOrder(S, m) ==
    { SUBNET_ORDER[j] : j \in { j \in 1..Len(SUBNET_ORDER) :
        /\ SUBNET_ORDER[j] \in S
        /\ Cardinality({ h \in 1..j : SUBNET_ORDER[h] \in S }) <= m } }

\* C10: the stake phase visits the targets in SUBNET_ORDER; when it ends with fetched
\* balance b >= 1 and every delegate call successful, exactly the first
\* min(floor(b), idle targets) idle targets were staked, one unit each, and the
\* tracked balance is b less one unit per stake, never below zero.
C10_StakePhase ==
    /\ [][(pc = "stake" /\ pc' = "stake") => k' = k + 1]_vars
    /\ [](kite_bal >= 0)
    /\ []((pc = "claim" /\ k = 1 /\ fetched >= BalScale /\ stk_calls = staked_count + 1)
            => LET m == Min(fetched \div BalScale, Cardinality(IdleAtLoad))
               IN  /\ staked_count = m
                   /\ { n \in IdleAtLoad : st[address][n].staked } = FirstInOrder(IdleAtLoad, m)
                   /\ kite_bal = fetched - m * BalScale)

\* C10 witness: balance 3.0 and three idle targets: all three staked, balance 0.0
C10_Witness ==
    /\ pc = "claim" /\ k = 1 /\ fetched = 3 * BalScale /\ stk_calls = staked_count + 1
    /\ IdleAtLoad = Targets
    /\ \A n \in Targets : st[address][n].staked
    /\ kite_bal = 0

\* the targets staked by the stake phase of this staking cycle (the store is not
\* written before staking_cycle returns)
StakedInPhase == { n \in IdleAtLoad : st[address][n].staked }

\* C11 as stated: all targets staked within one stake phase carry the same
\* last_stake_at, also when the clock advances between the delegate calls.
C11_Original ==
    pc \in { "stake", "claim" }
        => \A n \in StakedInPhase, m \in StakedInPhase :
               st[address][n].last_stake_at = st[address][m].last_stake_at

\* C11 amended: a target staked in the stake phase gets as last_stake_at the clock
\* reading taken when its own delegate call returned; over one stake phase these
\* values do not decrease in SUBNET_ORDER and lie between the start of the cycle and
\* now, so they are equal when the clock does not advance between the calls.
C11_Amended ==
    /\ [][(pc = "stake" /\ staked_count' = staked_count + 1)
            => st'[address][SUBNET_ORDER[k]].last_stake_at = [kind |-> "iso", t |-> clock']]_vars
    /\ [](pc \in { "stake", "claim" }
            => \A j \in 1..Len(SUBNET_ORDER), h \in 1..Len(SUBNET_ORDER) :
                   (j <= h /\ SUBNET_ORDER[j] \in StakedInPhase /\ SUBNET_ORDER[h] \in StakedInPhase)
                       => /\ Row(j).last_stake_at.kind = "iso"
                          /\ 0 <= Row(j).last_stake_at.t
                          /\ Row(j).last_stake_at.t <= Row(h).last_stake_at.t
                          /\ Row(h).last_stake_at.t <= clock)

\* C11 witness: three targets staked in one stake phase, the clock having advanced a
\* day between the first and the last delegate call
C11_Witness ==
    /\ pc = "claim" /\ k = 1 /\ StakedInPhase = Targets
    /\ Row(1).last_stake_at = ts_now_iso(0)
    /\ Row(Len(SUBNET_ORDER)).last_stake_at = ts_now_iso(UNSTAKE_AFTER_HOURS)

\* the place of a target in SUBNET_ORDER
Pos(n) == CHOOSE j \in 1..Len(SUBNET_ORDER) : SUBNET_ORDER[j] = n

\* the targets idle at the balance re-fetch that come before n in SUBNET_ORDER
IdleBefore(n) == { m \in idle_at_refetch : Pos(m) < Pos(n) }

\* a successful undelegate of a staked target at least 24 h old leaves it idle with
\* last_unstake_at set to the time the call returned
UnstakeEffect ==
    (pc = "unstake" /\ unstaked_count' = unstaked_count + 1)
        => /\ Row(k).staked
           /\ Row(k).last_stake_at.kind = "iso"
           /\ clock - Row(k).last_stake_at.t >= UNSTAKE_AFTER_HOURS
           /\ ~st'[address][SUBNET_ORDER[k]].staked
           /\ st'[address][SUBNET_ORDER[k]].last_unstake_at = [kind |-> "iso", t |-> clock']

\* C12 as stated: a target unstaked in this cycle is re-staked by the re-stake phase
\* when the re-fetched balance is at least one unit and the delegate calls succeed,
\* whatever the state of the other targets.
C12_Original ==
    [][ /\ UnstakeEffect
        /\ (pc = "restake" /\ pc' = "stats" /\ fetched >= BalScale
               /\ ~stk_throttled' /\ ~delegate_err')
              => \A n \in idle_at_refetch :
                     Persisted[address][n].staked => st'[address][n].staked ]_vars

\* C12 amended: a target unstaked in this cycle is re-staked by the re-stake phase
\* when the delegate calls succeed and the re-fetched balance covers one unit for it
\* and one unit for every target that is idle at the re-fetch and comes before it in
\* SUBNET_ORDER.
C12_Amended ==
    [][ /\ UnstakeEffect
        /\ (pc = "restake" /\ pc' = "stats" /\ ~stk_throttled' /\ ~delegate_err')
              => \A n \in idle_at_refetch :
                     (/\ Persisted[address][n].staked
                      /\ fetched >= BalScale * (1 + Cardinality(IdleBefore(n))))
                         => st'[address][n].staked ]_vars

\* C12 witness: the cycle ended having unstaked one target and re-staked it after an
\* earlier target that was idle all along
C12_Witness ==
    /\ pc = "stats" /\ unstaked_count = 1 /\ staked_count = 2
    /\ ~stk_throttled /\ ~delegate_err
    /\ \E n \in idle_at_refetch, m \in idle_at_refetch :
         /\ Pos(m) < Pos(n)
         /\ st[address][n].staked /\ st[address][n].last_unstake_at.kind = "iso"
         /\ st[address][m].staked /\ st[address][m].last_unstake_at = NoneTs

\* the place of the reserved agent in AGENT_ORDER
SherlockIdx == CHOOSE j \in 1..Len(AGENT_ORDER) : AGENT_ORDER[j] = "Sherlock"

\* the first pass of the chat phase is over
FirstPassOver == pc \in { "extra_check", "extra_agent", "quiz" }

\* C13 as stated: with an empty Sherlock pool the first pass sends chat_per_agent
\* fallback messages to Sherlock, for every chat_per_agent and every outcome of the
\* agents before it.
C13_Original ==
    (FirstPassOver /\ "Sherlock" \notin topics) => fallback_first = chat_per_agent

\* C13 amended: with an empty Sherlock pool, Sherlock's turn in the first pass is
\* reached unless the global-limit flag trips or the cap is reached before it; its
\* turn is min(chat_per_agent, cap - successes so far) attempts, each one a send of
\* the fallback message, cut short only by the flag tripping; it is never skipped.
C13_Amended ==
    /\ [][(pc = "chat_agent" /\ agent_idx = SherlockIdx /\ pc' = "chat_send")
            => attempts' = Min(chat_per_agent, GLOBAL_DAILY_CHAT_CAP - total_success_today)]_vars
    /\ []("Sherlock" \notin topics =>
            /\ (pc = "chat_send" /\ agent_idx = SherlockIdx) => fallback_first = i
            /\ (pc = "chat_agent" /\ agent_idx = SherlockIdx + 1) => fallback_first = attempts
            /\ (pc = "extra_check" /\ agent_idx <= SherlockIdx /\ ~hit_global_limit)
                  => (CapReached(total_success_today) /\ fallback_first = 0)
            /\ (pc = "extra_check" /\ agent_idx = SherlockIdx /\ hit_global_limit)
                  => fallback_first >= 1)

\* C13 witness: chat_per_agent is 4, the two agents before Sherlock used eight of the
\* nine slots, and Sherlock's turn was the one fallback send that was left
C13_Witness ==
    /\ pc = "chat_agent" /\ agent_idx = SherlockIdx + 1 /\ "Sherlock" \notin topics
    /\ chat_per_agent = 4 /\ fallback_first = 1 /\ sent = GLOBAL_DAILY_CHAT_CAP

\* C14: when smart-account derivation or authentication fails, the pipeline returns
\* at once with success count 0 and failure count 1, having issued no chat, quiz,
\* staking or statistics call and written nothing; it reports the global limit
\* exactly when the failure was a throttled one.
C14_AuthFailureReturns ==
    [][ pc = "account" =>
          /\ entry' \in Outcomes
          /\ entry' = "Ok" => (pc' = "chat_agent" /\ UNCHANGED schedVars)
          /\ entry' # "Ok" =>
                /\ total_ok' = total_ok /\ total_fail' = total_fail + 1
                /\ sent' = 0 /\ stk_calls' = 0 /\ disk' = disk /\ remote' = remote
                /\ hit_global_limit_any' <=> entry' = "Thr"
                /\ pc' = IF entry' = "Thr" \/ acct_pos = Len(accounts)
                         THEN "countdown" ELSE "account" ]_vars

\* C14 witness: the first account went through its pipeline, the second failed to
\* authenticate with a throttled outcome and the cycle ended
C14_Witness ==
    /\ pc = "countdown" /\ acct_pos = 2 /\ entry = "Thr" /\ hit_global_limit_any
    /\ total_fail >= 2 /\ sent = 0 /\ disk # MissingFile

\* the pipeline of the current account returns into run_cycle in this step
PipelineReturns == pc \in { "account", "stats" } /\ pc' \in { "account", "countdown" }

\* the globalLimitHit the returning pipeline reports
ReturnedHit == IF pc = "stats" THEN hit_global_limit ELSE entry' = "Thr"

\* C15: run_cycle processes the accounts in input order, one at a time; when a
\* pipeline returns globalLimitHit = true no later account is processed in the cycle,
\* and a pipeline returning false (also after a non-throttled authentication
\* failure) is followed by the next account as long as there is one.
C15_SchedulerOrder ==
    [][ /\ acct_pos' # acct_pos =>
              \/ pc = "main" /\ acct_pos' = 1
              \/ PipelineReturns /\ ~ReturnedHit /\ acct_pos' = acct_pos + 1
        /\ pc' = "account" =>
              \/ pc = "main" /\ acct_pos' = 1
              \/ PipelineReturns /\ acct_pos' = acct_pos + 1 /\ acct_pos' <= Len(accounts)
        /\ PipelineReturns =>
              IF ReturnedHit
              THEN pc' = "countdown" /\ acct_pos' = acct_pos /\ hit_global_limit_any'
              ELSE /\ hit_global_limit_any' = hit_global_limit_any
                   /\ IF acct_pos < Len(accounts)
                      THEN pc' = "account" /\ acct_pos' = acct_pos + 1
                      ELSE pc' = "countdown" ]_vars

\* C15 witness: the chat phase of the first account tripped the limit and the cycle
\* ended without the second account: the store holds the first account only
C15_Witness ==
    /\ pc = "countdown" /\ accounts = << 2, 1 >> /\ acct_pos = 1
    /\ hit_global_limit_any /\ entry = "Ok"
    /\ DOMAIN state_load = { 2 }

\* the positions of a running process
Running ==
    { "main", "account", "chat_agent", "chat_send", "extra_check", "extra_agent", "quiz",
      "staking", "stake", "claim", "unstake", "rebalance", "restake", "stats", "countdown" }

\* C16: whatever the outcomes of the remote calls, the process stays alive, every
\* cycle that starts reaches the 24-hour wait, and the wait is followed by the start
\* of the next cycle (as long as the modelled clock has room for the wait).
C16_NeverTerminates ==
    /\ [](pc \in Running)
    /\ (pc = "main") ~> (pc = "countdown")
    /\ (pc = "countdown" /\ clock + CYCLE_WAIT_HOURS <= MaxClock) ~> (pc = "main")

\* C16 witness: a second cycle starts a day after a cycle in which both chat sends
\* and the quiz failed and a staking call was made
C16_Witness ==
    /\ pc = "main" /\ clock = CYCLE_WAIT_HOURS
    /\ total_fail = 3 /\ total_ok = 0
    /\ disk.kind = "ok"

\* the error messages tried that match the throttle pattern, and those that do not
ThrottleMessages == { MsgTooMany, MsgRateLimit, MsgLimitRate }

DomainMessages == { MsgManyToo, MsgRate, MsgLimit, MsgTooShort }

\* C17: a decoded body whose error field is non-empty and does not match the
\* throttle pattern is classified as a domain error for every status code, also
\* below 400 (429 is throttled whatever the body).
C17_ErrorFieldIsDomainError ==
    (pc = "returned" /\ exchange.status # 429
       /\ exchange.body.kind = "object" /\ exchange.body.has_error
       /\ exchange.body.error \in DomainMessages)
        => outcome.kind = "Err"

\* C18: one outcome per exchange, by precedence: status 429 is throttled whatever
\* the body; otherwise an undecodable body is Ok(empty) below 400 and an error from
\* 400 on; otherwise a decoded error message that contains "too many", or both
\* "rate" and "limit", in any case of letters, is throttled whatever the status.
C18_Precedence ==
    pc = "returned" =>
        /\ outcome.kind \in { "Ok", "Thr", "Err" }
        /\ exchange.status = 429 => outcome.kind = "Thr"
        /\ (exchange.status # 429 /\ exchange.body.kind = "undecodable")
              => outcome = IF exchange.status < 400
                           THEN [kind |-> "Ok", empty |-> TRUE]
                           ELSE [kind |-> "Err", empty |-> FALSE]
        /\ (exchange.status # 429 /\ exchange.body.kind = "object"
               /\ exchange.body.has_error /\ exchange.body.error \in ThrottleMessages)
              => outcome.kind = "Thr"

\* C18 witness: status 500 with the message "Limit: Rate" is throttled
C18_Witness ==
    /\ pc = "returned" /\ exchange.status = 500
    /\ exchange.body.kind = "object" /\ exchange.body.error = MsgLimitRate
    /\ outcome.kind = "Thr"

\* every position of a state dict: all three targets per account, and a staked
\* position has a last_stake_at
WellFormed(s) ==
    \A a \in DOMAIN s :
        /\ DOMAIN s[a] = Targets
        /\ \A n \in Targets : s[a][n].staked => s[a][n].last_stake_at.kind = "iso"

\* C19: started without a store, every staked position has a last_stake_at, in the
\* loaded state and in the store; the positions of an account are created together
\* on its first staking cycle, unstaked and without timestamps, and no position is
\* ever deleted from the store.
C19_StakedHasStakeTime ==
    /\ [](WellFormed(st) /\ WellFormed(state_load))
    /\ [][ /\ DOMAIN state_load \subseteq DOMAIN state_load'
           /\ (pc = "staking" /\ pc' # "dead" /\ address \notin DOMAIN state_load)
                 => st'[address] = [n \in Targets |-> NewRow(n)] ]_vars

\* C19 witness: the store holds a position that was staked, then unstaked a day
\* later and keeps its last_stake_at, next to a staked one
C19_Witness ==
    /\ pc = "countdown" /\ disk.kind = "ok"
    /\ \E n \in Targets, m \in Targets :
         /\ ~state_load[address][n].staked
         /\ state_load[address][n].last_stake_at = ts_now_iso(0)
         /\ state_load[address][n].last_unstake_at = ts_now_iso(UNSTAKE_AFTER_HOURS)
         /\ state_load[address][m].staked

\* C20: the extra balancing pass is entered exactly when, after the first pass,
\* chat_per_agent is 1, fewer than GLOBAL_DAILY_CHAT_CAP sends succeeded and the
\* global-limit flag is not set; it is entered at most once, walks AGENT_ORDER from
\* its first agent with at most one send per agent, and ends without a further send
\* as soon as the cap is reached or the flag trips.
C20_ExtraPass ==
    [][ /\ pc = "extra_check" =>
              /\ pc' \in { "extra_agent", "quiz" }
              /\ pc' = "extra_agent" <=>
                    (/\ chat_per_agent = 1
                     /\ total_success_today < GLOBAL_DAILY_CHAT_CAP
                     /\ ~hit_global_limit)
              /\ pc' = "extra_agent" => agent_idx' = 1
              /\ sent' = sent
        /\ pc \in { "extra_agent", "quiz" } => pc' \in { "extra_agent", "quiz" }
        /\ (pc = "extra_agent" /\ pc' = "extra_agent") =>
              /\ agent_idx' = agent_idx + 1
              /\ sent' \in { sent, sent + 1 }
              /\ ~hit_global_limit' /\ total_success_today < GLOBAL_DAILY_CHAT_CAP
        /\ (pc = "extra_agent" /\ pc' = "quiz") =>
              /\ sent' \in { sent, sent + 1 }
              /\ sent' = sent => \/ total_success_today >= GLOBAL_DAILY_CHAT_CAP
                                 \/ agent_idx > Len(AGENT_ORDER)
              /\ sent' = sent + 1 => hit_global_limit'
        /\ (pc = "extra_agent"
               /\ (total_success_today >= GLOBAL_DAILY_CHAT_CAP \/ hit_global_limit))
              => (sent' = sent /\ pc' = "quiz") ]_vars

\* C20 witness: the first pass left two slots open, the extra pass filled them with
\* the first two agents and ended there
C20_Witness ==
    /\ pc = "quiz" /\ chat_per_agent = 1 /\ topics = Agents
    /\ total_success_today = GLOBAL_DAILY_CHAT_CAP
    /\ sent = Len(AGENT_ORDER) + 2 /\ agent_idx = 3

\* C21: the claim phase issues a claim-rewards call for a target exactly when the
\* target is staked at that point, whatever its elapsed time; a successful claim
\* changes only last_claim_at of that target, and no claim outcome changes staked,
\* last_stake_at or last_unstake_at of any target, nor the tracked balance.
C21_ClaimFrame ==
    [][ pc = "claim" =>
          LET n == SUBNET_ORDER[k]
          IN  /\ (stk_calls' = stk_calls + 1) <=> st[address][n].staked
              /\ stk_calls' \in { stk_calls, stk_calls + 1 }
              /\ \A m \in Targets :
                   /\ st'[address][m].staked = st[address][m].staked
                   /\ st'[address][m].last_stake_at = st[address][m].last_stake_at
                   /\ st'[address][m].last_unstake_at = st[address][m].last_unstake_at
                   /\ m # n => st'[address][m] = st[address][m]
              /\ claimed_count' \in { claimed_count, claimed_count + 1 }
              /\ claimed_count' = claimed_count + 1 =>
                   st'[address][n].last_claim_at = ts_now_iso(clock')
              /\ claimed_count' = claimed_count => st' = st
              /\ kite_bal' = kite_bal /\ staked_count' = staked_count
              /\ unstaked_count' = unstaked_count ]_vars

\* C21 witness: the claim phase is over; a target staked by the stake phase of this
\* cycle was claimed, a target staked with an unparseable last_stake_at was claimed,
\* and an idle target was passed over
C21_Witness ==
    /\ pc = "unstake" /\ k = 1 /\ claimed_count = 2 /\ stk_calls = staked_count + 3
    /\ \E n \in IdleAtLoad :
         st[address][n].staked /\ st[address][n].last_claim_at.kind = "iso"
    /\ \E n \in Targets :
         /\ st[address][n].last_stake_at = BadTs
         /\ st[address][n].last_claim_at.kind = "iso"
    /\ \E n \in Targets :
         ~st[address][n].staked /\ st[address][n].last_claim_at = NoneTs

\* the phases of staking_cycle that call delegate, claim_rewards or undelegate, and
\* the phase that follows each
TargetPhases == { "stake", "claim", "unstake", "restake" }

PhaseAfter(phase) ==
    CASE phase = "stake" -> "claim"
      [] phase = "claim" -> "unstake"
      [] phase = "unstake" -> "rebalance"
      [] phase = "restake" -> "stats"

\* a call on a target was issued and raised an exception other than the throttle:
\* no counter of successful operations moved and the cycle was not throttled
FailedStep ==
    /\ pc \in TargetPhases
    /\ stk_calls' = stk_calls + 1
    /\ ~stk_throttled'
    /\ staked_count' = staked_count
    /\ claimed_count' = claimed_count
    /\ unstaked_count' = unstaked_count

\* C22: a delegate, claim-rewards or undelegate call that fails without being
\* throttled leaves every position and the tracked balance as they were, and the
\* staking cycle goes on with the next target of the phase and, after the last
\* target, with the next phase (the end of staking_cycle after the re-stake phase).
C22_FailureSkipsTarget ==
    [][ FailedStep =>
          /\ st' = st
          /\ kite_bal' = kite_bal
          /\ IF k < Len(SUBNET_ORDER)
             THEN pc' = pc /\ k' = k + 1
             ELSE pc' = PhaseAfter(pc)
          /\ pc' = "stats" => disk' = state_save(st) ]_vars

\* C22 witness: one target idle and two staked for 24 hours; the delegate of the
\* stake phase, both claims, both undelegates and the delegate of the re-stake phase
\* all failed, none throttled, and staking_cycle ran to its end with no position
\* changed
C22_Witness ==
    /\ pc = "stats" /\ ~stk_throttled /\ delegate_err
    /\ staked_count = 0 /\ claimed_count = 0 /\ unstaked_count = 0
    /\ stk_calls = 8
    /\ Cardinality({ n \in Targets : st[address][n].staked }) = 2
    /\ kite_bal >= BalScale

\* the positions of process_account before its quiz and after it
BeforeQuiz == { "chat_agent", "chat_send", "extra_check", "extra_agent", "quiz" }

AfterQuiz == { "staking", "stake", "claim", "unstake", "rebalance", "restake", "stats" }

\* C23: an account-cycle that got past authentication runs the quiz once, after the
\* chat phase; the quiz adds one to exactly one of success and failed (to success
\* only when create, fetch and submit all answered); a step that fails, throttled or
\* not, is the last step attempted, no step is attempted twice, and the quiz leaves
\* the global-limit flag and the consecutive-throttle counter as they were.
C23_QuizOnce ==
    /\ [][ pc = "quiz" =>
             /\ pc' = "staking"
             /\ quiz_runs' = quiz_runs + 1
             /\ \/ success' = success + 1 /\ failed' = failed
                \/ success' = success /\ failed' = failed + 1
             /\ success' = success + 1 <=> quiz_steps' = << "Ok", "Ok", "Ok" >>
             /\ Len(quiz_steps') \in 1..3
             /\ \A j \in 1..(Len(quiz_steps') - 1) : quiz_steps'[j] = "Ok"
             /\ hit_global_limit' = hit_global_limit
             /\ consecutive_429' = consecutive_429
             /\ sent' = sent ]_vars
    /\ [][ pc # "quiz" => quiz_runs' \in { quiz_runs, 0 } ]_vars
    /\ [](pc \in BeforeQuiz => quiz_runs = 0)
    /\ [](pc \in AfterQuiz => quiz_runs = 1)

\* C23 witness: four chats were throttled and one failed otherwise, then the quiz was
\* throttled at its second step: the third step was not attempted, the quiz counted
\* one failure and the global-limit flag is not set
C23_Witness ==
    /\ pc = "staking" /\ quiz_runs = 1
    /\ quiz_steps = << "Ok", "Thr" >>
    /\ consecutive_429 = THROTTLE_TRIP - 1 /\ ~hit_global_limit
    /\ success = 0 /\ failed = sent + 1

\* C24: after a successful chat call and receipt submission, the lookup polls at
\* most MAX_RETRY times and, whatever the polls answer (no hash, throttled, or
\* another error), ends with a hash or "pending", and the send counts as a success.
C24_LookupDegrades ==
    (pc = "sent" /\ send_in.chat = "Ok" /\ send_in.receipt = "Ok")
        => /\ send_out.polls <= MAX_RETRY
           /\ send_out.lookup \in { "hash", "pending" }
           /\ send_out.ok /\ ~send_out.rate_limited

\* C25: the global-limit flag is set only when the THROTTLE_TRIP most recent chat
\* outcomes of the account-cycle were all throttled: no successful send and no
\* non-throttled failure lies among them (the flag is set by the throttle that
\* brings the counter to THROTTLE_TRIP, and a success restarts the counter, so the
\* counted throttles are the most recent outcomes unless a non-throttled failure
\* lies between them).
C25_TripNeedsFiveInARow ==
    hit_global_limit => (consecutive_429 >= THROTTLE_TRIP /\ ~run_broken)

\* the target the unstake phase is evaluating was staked when the previous cycle of
\* the account ended (the store is what that cycle left: it is not written again
\* before staking_cycle returns)
StakedSinceLastCycle ==
    /\ pc = "unstake"
    /\ disk.kind = "ok"
    /\ Persisted[address][SUBNET_ORDER[k]].staked

\* C26: with no restart and a clock that does not go back, a position that was
\* staked when cycle N ended is still staked and at least UNSTAKE_AFTER_HOURS old
\* when the unstake phase of cycle N+1 evaluates it, and the phase issues an
\* undelegate call for it.
C26_DueInNextCycle ==
    /\ [](StakedSinceLastCycle =>
            /\ Row(k).staked
            /\ Row(k).last_stake_at = Persisted[address][SUBNET_ORDER[k]].last_stake_at
            /\ Row(k).last_stake_at.kind = "iso"
            /\ clock - Row(k).last_stake_at.t >= UNSTAKE_AFTER_HOURS)
    /\ [][ StakedSinceLastCycle =>
             /\ stk_calls' = stk_calls + 1
             /\ unstaked_count' = unstaked_count + 1 <=> ~st'[address][SUBNET_ORDER[k]].staked
             /\ unstaked_count' = unstaked_count + 1 \/ st' = st ]_vars

\* C26 witness: a target was staked a day into the first cycle by a delegate call
\* that took a day, the cycle ended there, the wait lasted 24 hours, and the unstake
\* phase of the second cycle has unstaked it, exactly 24 hours old
C26_Witness ==
    /\ pc = "unstake" /\ k = 2 /\ clock = CYCLE_WAIT_HOURS
    /\ unstaked_count = 1 /\ staked_count = 0
    /\ ~Row(1).staked
    /\ Row(1).last_stake_at = ts_now_iso(0)
    /\ Row(1).last_unstake_at = ts_now_iso(CYCLE_WAIT_HOURS)

\* what the durable store holds for account b: its positions, or nothing (the
\* account is not in the file, or the file is missing or unreadable)
EntryOf(d, b) ==
    IF d.kind = "ok" /\ b \in DOMAIN d.accounts
    THEN [present |-> TRUE, subnets |-> d.accounts[b]]
    ELSE [present |-> FALSE, subnets |-> EmptyAccounts]

\* C27: no step of the staking cycle of one account changes what the durable store
\* holds for any other account, whether the store was readable, missing or
\* unreadable when the cycle loaded it; the positions of the other accounts that the
\* cycle carries in memory are the ones it loaded.
C27_OtherAccountsUntouched ==
    /\ [][ \A b \in Addresses \ { address } : EntryOf(disk', b) = EntryOf(disk, b) ]_vars
    /\ [](pc \in { "stake", "claim", "unstake", "rebalance", "restake", "stats" } =>
            \A b \in Addresses \ { address } :
                EntryOf(state_save(st), b) = EntryOf(disk, b))

\* C27 witness: the staking cycle of account 1 changed its own positions and wrote
\* the store, which still holds the positions of account 2
C27_Witness ==
    /\ pc = "stats" /\ address = 1
    /\ staked_count + unstaked_count > 0 /\ claimed_count > 0
    /\ disk = state_save(st)
    /\ EntryOf(disk, 2) = [present |-> TRUE, subnets |-> OtherRows]

\* the positions of process_account after its chat phase
AfterChat == { "quiz", "staking", "stake", "claim", "unstake", "rebalance", "restake" }

\* C28 as stated: a pipeline reports globalLimitHit = true only when the
\* consecutive-throttle counter reached THROTTLE_TRIP in its chat phase.
C28_Original ==
    [][ (PipelineReturns /\ hit_global_limit_any')
            => (pc = "stats" /\ consecutive_429 >= THROTTLE_TRIP) ]_vars

\* C28 amended: a pipeline reports globalLimitHit = true exactly when the
\* consecutive-throttle counter reached THROTTLE_TRIP in its chat phase or its
\* smart-account derivation or authentication was throttled; no outcome of the
\* quiz or of the staking cycle changes the flag or the counter, and a pipeline
\* that reports false is followed by the next account of the cycle.
C28_Amended ==
    /\ [][ (pc \in AfterChat) =>
             /\ consecutive_429' = consecutive_429
             /\ hit_global_limit' = hit_global_limit ]_vars
    /\ [](pc \in AfterChat \cup { "stats" } =>
            (hit_global_limit <=> consecutive_429 >= THROTTLE_TRIP))
    /\ [][ PipelineReturns =>
             /\ hit_global_limit_any' <=>
                   \/ pc = "stats" /\ consecutive_429 >= THROTTLE_TRIP
                   \/ pc = "account" /\ entry' = "Thr"
             /\ (~hit_global_limit_any' /\ acct_pos < Len(accounts))
                   => (pc' = "account" /\ acct_pos' = acct_pos + 1) ]_vars

\* C28 witness: the first account passed its quiz and had the balance fetch of its
\* staking cycle throttled (nothing was saved), the second account was processed all
\* the same, and its throttled authentication ended the cycle with the limit reported
C28_Witness ==
    /\ pc = "countdown" /\ acct_pos = 2 /\ entry = "Thr" /\ hit_global_limit_any
    /\ total_ok >= 1 /\ disk = MissingFile

=============================================================================
